---- MODULE Spec2Model ----
(***************************************************************************)
(* Model of src/app.py: the Dashboard Builder (create_dashboard), the      *)
(* Results Formatter (get_race_results) and the Selection Resolver (index).*)
(* The data provider (fastf1) and the rendering surface (matplotlib) are   *)
(* external: what they return and where they raise is chosen from small    *)
(* sets, the program's own control flow is translated statement by         *)
(* statement.  Optional values are sequences: None is <<>>, a value v is   *)
(* <<v>>.  Texts that the program builds are sequences of pieces.          *)
(***************************************************************************)
EXTENDS Integers, Sequences, FiniteSets, TLC

VARIABLES
    figures,    \* matplotlib's registry of open figures (pyplot global state)
    pc,         \* "idle": no call in progress; "returned": a call has returned
    call,       \* the operation called, its arguments and the adapter it met
    out         \* what the call returned, and the calls it made on its way

vars == <<figures, pc, call, out>>

----------------------------------------------------------------------------
(* Bounds of the model *)

MaxLaps == 2
MaxSamples == 2
MaxRecords == 2

----------------------------------------------------------------------------
(* Values *)

None == <<>>
Some(v) == <<v>>

RECURSIVE SeqsUpTo(_, _)
SeqsUpTo(S, n) ==
    IF n = 0 THEN {<<>>}
    ELSE LET shorter == SeqsUpTo(S, n - 1)
         IN  shorter \cup {Append(s, x) : s \in {t \in shorter : Len(t) = n - 1}, x \in S}

Drivers == {"HAM", "VER"}

\* Python's string order on the driver identifiers of the model
Ord == [d \in Drivers |-> IF d = "HAM" THEN 1 ELSE 2]

Years == {None, Some(0), Some(2024)}
Races == {None, Some(""), Some("Bahrain Grand Prix")}
DriverArgs == {None, Some(""), Some("ALL"), Some("VER"), Some("HAM")}

\* a lap record of the session: the driver and the lap time (None: incomplete)
LapPool == [Driver : Drivers, LapTime : {None, Some(90), Some(91)}]
LapSeqs == SeqsUpTo(LapPool, MaxLaps)

\* the telemetry samples of a lap (the speed channel stands for all channels)
TelemetrySeqs == SeqsUpTo({100, 200}, MaxSamples)

----------------------------------------------------------------------------
(* create_dashboard *)

\* the places of create_dashboard's try block where a call can raise
DashboardFaults ==
    {"get_session", "load", "pick_drivers", "pick_fastest", "get_telemetry",
     "figure", "panels", "savefig", "b64encode", "close"}

pick_drivers(laps, driver) == SelectSeq(laps, LAMBDA l : l.Driver = driver)

TimedLaps(laps) == SelectSeq(laps, LAMBDA l : l.LapTime # None)


\* pick_fastest without the filter on null lap times: the first lap is taken
pick_fastest_unfiltered(laps) == IF Len(laps) = 0 THEN None ELSE Some(laps[1])

\* pick_fastest that gives up as soon as one lap of the driver is incomplete
pick_fastest_all_timed(laps) ==
    IF Len(laps) = 0 \/ Len(TimedLaps(laps)) < Len(laps) THEN None ELSE Some(laps[1])

\* the adapter's fastest lap: the first lap of minimum lap time among the
\* laps with a lap time, None when there is none
pick_fastest(laps) ==
    LET timed == TimedLaps(laps)
    IN  IF Len(timed) = 0 THEN None
        ELSE LET i == CHOOSE i \in 1..Len(timed) :
                        /\ \A j \in 1..Len(timed) : timed[i].LapTime[1] <= timed[j].LapTime[1]
                        /\ \A j \in 1..(i - 1) : timed[j].LapTime[1] > timed[i].LapTime[1]
             IN  Some(timed[i])

\* plt.figure(): a new figure is registered under the next free number
NewFigure(figs) == IF figs = {} THEN 1 ELSE 1 + CHOOSE n \in figs : \A m \in figs : m <= n

\* plt.close(fig)
CloseFigure(figs, fig) == figs \ {fig}

\* plt.close('all')
CloseAll(figs) == {}

NoDriverData(driver) ==
    <<None, Some(<<"Error: No data found for driver ", driver, ".">>)>>

NoCompletedLap(driver) ==
    <<None, Some(<<"Error: No completed lap data found for ", driver, " (e.g., DNF on Lap 1).">>)>>

NoTelemetry(driver) ==
    <<None, Some(<<"Error: No telemetry data found for ", driver, "'s fastest lap.">>)>>

\* the data URI of the rasterized figure
ImagePayload(driver, driver_laps, fastest_lap, telemetry) ==
    [prefix |-> "data:image/png;base64,",
     data |-> [driver |-> driver, laps |-> driver_laps,
               fastest |-> fastest_lap, telemetry |-> telemetry]]


\* the except clause without plt.close('all')
DashboardExcept_no_close(e, figs, log) ==
    [ret |-> <<None, Some(<<"An error occurred: ", e,
                            ". The driver may not have data for this session.">>)>>,
     figures |-> figs,
     log |-> log]

\* the except clause returning no message
DashboardExcept_no_message(e, figs, log) ==
    [ret |-> <<None, None>>, figures |-> CloseAll(figs), log |-> log]

\* except Exception as e: of create_dashboard
DashboardExcept(e, figs, log) ==
    [ret |-> <<None, Some(<<"An error occurred: ", e,
                            ". The driver may not have data for this session.">>)>>,
     figures |-> CloseAll(figs),
     log |-> log]

DashboardReturn(ret, figs, log) == [ret |-> ret, figures |-> figs, log |-> log]

\* lines 53-172: the figure is created, drawn, saved, encoded and closed
DashboardRender(driver, driver_laps, fastest_lap, telemetry, adapter, figs, log) ==
    IF adapter.raises = "figure" THEN DashboardExcept("figure", figs, log)
    ELSE
    LET fig == NewFigure(figs)
        open == figs \cup {fig}
        drawn == Append(log, "plt.figure")
    IN  IF adapter.raises \in {"panels", "savefig", "b64encode", "close"}
        THEN DashboardExcept(adapter.raises, open, drawn)
        ELSE DashboardReturn(
                <<Some(ImagePayload(driver, driver_laps, fastest_lap, telemetry)), None>>,
                CloseFigure(open, fig), drawn)

create_dashboard(year, race, driver, adapter, figs) ==
    IF adapter.raises = "get_session" THEN DashboardExcept("get_session", figs, <<"get_session">>)
    ELSE IF adapter.raises = "load"
    THEN DashboardExcept("load", figs, <<"get_session", "load">>)
    ELSE
    LET log == <<"get_session", "load">>
    IN  IF adapter.raises = "pick_drivers" THEN DashboardExcept("pick_drivers", figs, log)
        ELSE
        LET driver_laps == pick_drivers(adapter.laps, driver)
        IN  IF Len(driver_laps) = 0 THEN DashboardReturn(NoDriverData(driver), figs, log)
            ELSE IF adapter.raises = "pick_fastest"
            THEN DashboardExcept("pick_fastest", figs, log)
            ELSE
            LET fastest_lap == pick_fastest(driver_laps)
            IN  IF fastest_lap = None
                THEN DashboardReturn(NoCompletedLap(driver), figs, log)
                ELSE IF adapter.raises = "get_telemetry"
                THEN DashboardExcept("get_telemetry", figs, log)
                ELSE
                LET telemetry == adapter.telemetry
                IN  IF Len(telemetry) = 0
                    THEN DashboardReturn(NoTelemetry(driver), figs, log)
                    ELSE DashboardRender(driver, driver_laps, fastest_lap[1],
                                         telemetry, adapter, figs, log)

----------------------------------------------------------------------------
(* get_race_results *)

final_cols ==
    <<"Position", "FullName", "Abbreviation", "TeamName", "Laps", "Time", "Status", "Points">>

FinalColSet == {final_cols[i] : i \in 1..Len(final_cols)}

FullNameOf == [d \in Drivers |-> IF d = "HAM" THEN "Lewis Hamilton" ELSE "Max Verstappen"]
TeamNameOf == [d \in Drivers |-> IF d = "HAM" THEN "Ferrari" ELSE "Red Bull Racing"]

\* a pandas Timedelta: whole days and the clock part of its text
Timedeltas ==
    { [days |-> 0, clock |-> <<"0", "1", ":", "3", "1", ":", "4", "4">>],
      [days |-> 1, clock |-> <<"0", "0", ":", "0", "0", ":", "0", "5">>] }

\* a result record as the adapter supplies it: Position is a float or NaN
\* (None), Time a Timedelta or NaT (None)
RowPool ==
    { [Position |-> p, FullName |-> FullNameOf[d], Abbreviation |-> d,
       TeamName |-> TeamNameOf[d], Laps |-> 57, Time |-> t,
       Status |-> "Finished", Points |-> 25] :
      d \in Drivers, p \in {None, Some(1)}, t \in {None} \cup {Some(x) : x \in Timedeltas} }

ResultsFaults == {"get_session", "load"}

Digit == <<"0", "1", "2", "3", "4", "5", "6", "7", "8", "9">>

RECURSIVE NatChars(_)
NatChars(n) == IF n < 10 THEN <<Digit[n + 1]>> ELSE Append(NatChars(n \div 10), Digit[(n % 10) + 1])

\* str(x) of a Timedelta: "<days> days <clock>"
TimedeltaStr(x) == NatChars(x.days) \o <<" ", "d", "a", "y", "s", " ">> \o x.clock

\* s.split(sep)[-1]: what follows the last occurrence of sep, or s without one
SplitLast(s, sep) ==
    LET at == {i \in 1..(Len(s) - Len(sep) + 1) : SubSeq(s, i, i + Len(sep) - 1) = sep}
    IN  IF at = {} THEN s
        ELSE LET i == CHOOSE i \in at : \A j \in at : j <= i
             IN  SubSeq(s, i + Len(sep), Len(s))


\* the test of line 196 inverted: null times are printed, others become N/A
TimeToString_inverted(x) ==
    IF x = None THEN <<"N", "a", "T">> ELSE <<"N", "/", "A">>

\* line 196: lambda x: str(x).split('days ')[-1] if pd.notna(x) else 'N/A'
TimeToString(x) ==
    IF x # None THEN SplitLast(TimedeltaStr(x[1]), <<"d", "a", "y", "s", " ">>)
    ELSE <<"N", "/", "A">>

\* lines 195-196
ConvertTime(results) ==
    IF "Time" \in results.columns
    THEN [results EXCEPT !.rows =
            [i \in 1..Len(results.rows) |->
                [results.rows[i] EXCEPT !.Time = TimeToString(results.rows[i].Time)]]]
    ELSE results

\* line 199: results['Position'].astype(int); raised is the exception's text
ConvertPosition(results) ==
    IF "Position" \notin results.columns
    THEN [raised |-> Some(<<"'Position'">>), results |-> results]
    ELSE IF \E i \in 1..Len(results.rows) : results.rows[i].Position = None
    THEN [raised |-> Some(<<"Cannot convert non-finite values (NA or inf) to integer">>),
          results |-> results]
    ELSE [raised |-> None,
          results |-> [results EXCEPT !.rows =
              [i \in 1..Len(results.rows) |->
                  [results.rows[i] EXCEPT !.Position = results.rows[i].Position[1]]]]]

\* line 206
missing_cols(results) == SelectSeq(final_cols, LAMBDA col : col \notin results.columns)

\* ', '.join(cols)
RECURSIVE Join(_)
Join(cols) ==
    IF Len(cols) = 0 THEN <<>>
    ELSE IF Len(cols) = 1 THEN cols
    ELSE <<cols[1], ", ">> \o Join(Tail(cols))

MissingColumns(missing) == <<"Data is missing columns: ">> \o Join(missing)

\* lines 210-217: the selected columns, Abbreviation and TeamName renamed
RenameRow(row) ==
    [Position |-> row.Position, FullName |-> row.FullName, Driver |-> row.Abbreviation,
     Team |-> row.TeamName, Laps |-> row.Laps, Time |-> row.Time,
     Status |-> row.Status, Points |-> row.Points]

to_dict(results) == [i \in 1..Len(results.rows) |-> RenameRow(results.rows[i])]

\* except Exception as e: of get_race_results
ResultsExcept(e, figs, log) ==
    [ret |-> <<None, Some(<<"An error occurred: ">> \o e \o <<". Could not load results.">>)>>,
     figures |-> CloseAll(figs),
     log |-> log]

get_race_results(year, race, adapter, figs) ==
    IF adapter.raises = "get_session"
    THEN ResultsExcept(<<"get_session">>, figs, <<"get_session">>)
    ELSE IF adapter.raises = "load"
    THEN ResultsExcept(<<"load">>, figs, <<"get_session", "load">>)
    ELSE
    LET log == <<"get_session", "load">>
        timed == ConvertTime(adapter.results)
        cast == ConvertPosition(timed)
    IN  IF cast.raised # None THEN ResultsExcept(cast.raised[1], figs, log)
        ELSE
        LET missing == missing_cols(cast.results)
        IN  IF Len(missing) > 0 THEN ResultsExcept(MissingColumns(missing), figs, log)
            ELSE [ret |-> <<Some(to_dict(cast.results)), None>>, figures |-> figs, log |-> log]

----------------------------------------------------------------------------
(* index *)

\* Python truth of an optional int (request.args.get('year', type=int))
TruthyInt(x) == x # None /\ x[1] # 0

\* Python truth of an optional string (request.args.get('race'))
TruthyStr(x) == x # None /\ x[1] # ""

RECURSIVE SortByOrd(_)
SortByOrd(S) ==
    IF S = {} THEN <<>>
    ELSE LET m == CHOOSE m \in S : \A d \in S : Ord[m] <= Ord[d]
         IN  <<m>> \o SortByOrd(S \ {m})

\* line 258: sorted(session.laps['Driver'].unique().tolist())
sorted_unique_drivers(laps) == SortByOrd({laps[i].Driver : i \in 1..Len(laps)})

\* the places of index's own try block where the adapter can raise
IndexFaults == {"get_event_schedule", "get_session", "load"}


\* results_data initialised to an empty list instead of None
IndexLocals_empty_list(figs) ==
    [races_list |-> <<>>, drivers_list |-> <<>>, plot_data |-> None,
     results_data |-> Some(<<>>), error |-> None, raised |-> None,
     log |-> <<>>, builders |-> <<>>, figures |-> figs]

\* lines 240-246: the locals of index before its try block
IndexLocals(figs) ==
    [races_list |-> <<>>, drivers_list |-> <<>>, plot_data |-> None,
     results_data |-> None, error |-> None, raised |-> None,
     log |-> <<>>, builders |-> <<>>, figures |-> figs]

\* what a builder is handed by the adapter when index calls it
BuilderAdapter(adapter) ==
    [raises |-> adapter.builder_raises, laps |-> adapter.laps,
     telemetry |-> adapter.telemetry, results |-> adapter.results]

\* lines 249-252
IndexSchedule(st, selected_year, adapter) ==
    IF st.raised # None \/ ~TruthyInt(selected_year) THEN st
    ELSE IF adapter.raises = "get_event_schedule"
    THEN [st EXCEPT !.raised = Some("get_event_schedule"),
                    !.log = Append(@, "get_event_schedule")]
    ELSE [st EXCEPT !.races_list = adapter.events,
                    !.log = Append(@, "get_event_schedule")]


\* the driver-list stage guarded by the race alone
IndexDrivers_race_only(st, selected_year, selected_race, adapter) ==
    IF st.raised # None \/ ~TruthyStr(selected_race) THEN st
    ELSE IF adapter.raises = "get_session"
    THEN [st EXCEPT !.raised = Some("get_session"), !.log = Append(@, "get_session")]
    ELSE IF adapter.raises = "load"
    THEN [st EXCEPT !.raised = Some("load"), !.log = @ \o <<"get_session", "load">>]
    ELSE [st EXCEPT !.drivers_list = sorted_unique_drivers(adapter.laps),
                    !.log = @ \o <<"get_session", "load">>]

\* lines 254-258
IndexDrivers(st, selected_year, selected_race, adapter) ==
    IF st.raised # None \/ ~(TruthyInt(selected_year) /\ TruthyStr(selected_race)) THEN st
    ELSE IF adapter.raises = "get_session"
    THEN [st EXCEPT !.raised = Some("get_session"), !.log = Append(@, "get_session")]
    ELSE IF adapter.raises = "load"
    THEN [st EXCEPT !.raised = Some("load"), !.log = @ \o <<"get_session", "load">>]
    ELSE [st EXCEPT !.drivers_list = sorted_unique_drivers(adapter.laps),
                    !.log = @ \o <<"get_session", "load">>]


\* the dispatch with the test on "ALL" inverted
IndexDispatch_inverted(st, selected_year, selected_race, selected_driver, adapter) ==
    IF \/ st.raised # None
       \/ ~(TruthyInt(selected_year) /\ TruthyStr(selected_race) /\ TruthyStr(selected_driver))
    THEN st
    ELSE IF selected_driver[1] # "ALL"
    THEN LET r == get_race_results(selected_year[1], selected_race[1],
                                   BuilderAdapter(adapter), st.figures)
         IN  [st EXCEPT !.results_data = r.ret[1], !.error = r.ret[2],
                        !.figures = r.figures, !.log = @ \o r.log,
                        !.builders = Append(@, "get_race_results")]
    ELSE LET r == create_dashboard(selected_year[1], selected_race[1], selected_driver[1],
                                   BuilderAdapter(adapter), st.figures)
         IN  [st EXCEPT !.plot_data = r.ret[1], !.error = r.ret[2],
                        !.figures = r.figures, !.log = @ \o r.log,
                        !.builders = Append(@, "create_dashboard")]

\* lines 260-267
IndexDispatch(st, selected_year, selected_race, selected_driver, adapter) ==
    IF \/ st.raised # None
       \/ ~(TruthyInt(selected_year) /\ TruthyStr(selected_race) /\ TruthyStr(selected_driver))
    THEN st
    ELSE IF selected_driver[1] = "ALL"
    THEN LET r == get_race_results(selected_year[1], selected_race[1],
                                   BuilderAdapter(adapter), st.figures)
         IN  [st EXCEPT !.results_data = r.ret[1], !.error = r.ret[2],
                        !.figures = r.figures, !.log = @ \o r.log,
                        !.builders = Append(@, "get_race_results")]
    ELSE LET r == create_dashboard(selected_year[1], selected_race[1], selected_driver[1],
                                   BuilderAdapter(adapter), st.figures)
         IN  [st EXCEPT !.plot_data = r.ret[1], !.error = r.ret[2],
                        !.figures = r.figures, !.log = @ \o r.log,
                        !.builders = Append(@, "create_dashboard")]


\* the except clause swallowing the exception
IndexExcept_swallow(st) == st

\* lines 269-271: except Exception as e: of index
IndexExcept(st) ==
    IF st.raised = None THEN st
    ELSE [st EXCEPT !.error = Some(<<"An error occurred: ", st.raised[1],
                                     ". Please check your selections.">>)]

index(selected_year, selected_race, selected_driver, adapter, figs) ==
    LET s0 == IndexLocals(figs)
        s1 == IndexSchedule(s0, selected_year, adapter)
        s2 == IndexDrivers(s1, selected_year, selected_race, adapter)
        s3 == IndexDispatch(s2, selected_year, selected_race, selected_driver, adapter)
    IN  IndexExcept(s3)

----------------------------------------------------------------------------
(* What the adapter can hold and do, per operation *)

DashboardAdapters ==
    [raises : DashboardFaults \cup {"none"}, laps : LapSeqs, telemetry : TelemetrySeqs]

ResultTables == [columns : SUBSET FinalColSet, rows : SeqsUpTo(RowPool, MaxRecords)]

\* the adapter raises before the classification is read, or supplies one
ResultsAdapters ==
    [raises : ResultsFaults, results : {[columns |-> FinalColSet, rows |-> <<>>]}]
    \cup [raises : {"none"}, results : ResultTables]

EventLists == {<<"Bahrain Grand Prix">>, <<"Bahrain Grand Prix", "Saudi Arabian Grand Prix">>}

\* the lap records index reads for the driver list
IndexLapSeqs == SeqsUpTo([Driver : Drivers, LapTime : {None, Some(90)}], MaxLaps)

ExampleRows ==
    << [Position |-> Some(1), FullName |-> FullNameOf["VER"], Abbreviation |-> "VER",
        TeamName |-> TeamNameOf["VER"], Laps |-> 57,
        Time |-> Some([days |-> 0, clock |-> <<"0", "1", ":", "3", "1", ":", "4", "4">>]),
        Status |-> "Finished", Points |-> 25],
       [Position |-> Some(2), FullName |-> FullNameOf["HAM"], Abbreviation |-> "HAM",
        TeamName |-> TeamNameOf["HAM"], Laps |-> 57, Time |-> None,
        Status |-> "Finished", Points |-> 18] >>

\* the classification of a session as index meets it: complete or one column short
IndexResultTables ==
    [columns : {FinalColSet, FinalColSet \ {"Points"}},
     rows : {SubSeq(ExampleRows, 1, n) : n \in 0..Len(ExampleRows)}]

\* index meets a fault in its own stages, or hands the adapter to one of the builders
IndexAdapters ==
    [raises : IndexFaults \cup {"none"}, builder_raises : {"none"},
     events : EventLists, laps : IndexLapSeqs, telemetry : {<<100>>},
     results : {[columns |-> FinalColSet, rows |-> ExampleRows]}]
    \cup
    [raises : {"none"}, builder_raises : DashboardFaults,
     events : EventLists, laps : IndexLapSeqs, telemetry : {<<100>>},
     results : {[columns |-> FinalColSet, rows |-> ExampleRows]}]
    \cup
    [raises : {"none"}, builder_raises : {"none"},
     events : EventLists, laps : IndexLapSeqs, telemetry : {<<>>, <<100>>},
     results : IndexResultTables]

----------------------------------------------------------------------------
(* The calls *)

NoCall == [op |-> "none"]
NoOut == [ret |-> <<None, None>>]

Init ==
    /\ figures = {}
    /\ pc = "idle"
    /\ call = NoCall
    /\ out = NoOut

CallCreateDashboard ==
    /\ pc = "idle"
    /\ \E driver \in Drivers, adapter \in DashboardAdapters :
          LET r == create_dashboard(2024, "Bahrain Grand Prix", driver, adapter, figures)
          IN  /\ figures' = r.figures
              /\ call' = [op |-> "create_dashboard", driver |-> driver, adapter |-> adapter]
              /\ out' = [ret |-> r.ret, log |-> r.log]
    /\ pc' = "returned"

CallGetRaceResults ==
    /\ pc = "idle"
    /\ \E adapter \in ResultsAdapters :
          LET r == get_race_results(2024, "Bahrain Grand Prix", adapter, figures)
          IN  /\ figures' = r.figures
              /\ call' = [op |-> "get_race_results", adapter |-> adapter]
              /\ out' = [ret |-> r.ret, log |-> r.log]
    /\ pc' = "returned"

CallIndex ==
    /\ pc = "idle"
    /\ \E selected_year \in Years, selected_race \in Races, selected_driver \in DriverArgs,
          adapter \in IndexAdapters :
          LET st == index(selected_year, selected_race, selected_driver, adapter, figures)
          IN  /\ figures' = st.figures
              /\ call' = [op |-> "index", selected_year |-> selected_year,
                          selected_race |-> selected_race,
                          selected_driver |-> selected_driver, adapter |-> adapter]
              /\ out' = [races |-> st.races_list, drivers |-> st.drivers_list,
                         plot_data |-> st.plot_data, results_data |-> st.results_data,
                         error |-> st.error, log |-> st.log, builders |-> st.builders]
    /\ pc' = "returned"

\* the caller takes the returned value; the process is ready for the next call
Return ==
    /\ pc = "returned"
    /\ pc' = "idle"
    /\ call' = NoCall
    /\ out' = NoOut
    /\ UNCHANGED figures

Next == CallCreateDashboard \/ CallGetRaceResults \/ CallIndex \/ Return

Spec == Init /\ [][Next]_vars

NextDashboard == CallCreateDashboard \/ Return
SpecDashboard == Init /\ [][NextDashboard]_vars

NextResults == CallGetRaceResults \/ Return
SpecResults == Init /\ [][NextResults]_vars

NextIndex == CallIndex \/ Return
SpecIndex == Init /\ [][NextIndex]_vars

NextBuilders == CallCreateDashboard \/ CallGetRaceResults \/ Return
SpecBuilders == Init /\ [][NextBuilders]_vars

----------------------------------------------------------------------------
(* Properties *)

Dashboarded == pc = "returned" /\ call.op = "create_dashboard"
Formatted == pc = "returned" /\ call.op = "get_race_results"
Resolved == pc = "returned" /\ call.op = "index"

\* the pieces of a message
Pieces(msg) == {msg[i] : i \in 1..Len(msg)}

\* the session's laps of the driver of a create_dashboard call, by position
LapsOfDriver == {i \in 1..Len(call.adapter.laps) : call.adapter.laps[i].Driver = call.driver}
CompletedLapsOfDriver == {i \in LapsOfDriver : call.adapter.laps[i].LapTime # None}

\* C1: every create_dashboard call returns a pair with exactly one non-null
\* component, (payload, None) or (None, message), wherever the adapter or the
\* rendering raises and whatever the session holds.
C1_ExactlyOneComponent ==
    Dashboarded =>
        /\ Len(out.ret) = 2
        /\ (out.ret[1] = None) # (out.ret[2] = None)

\* a call in which saving the figure raised, answered by (None, message)
C1_Witness ==
    /\ Dashboarded
    /\ call.adapter.raises = "savefig"
    /\ "plt.figure" \in Pieces(out.log)
    /\ out.ret[1] = None
    /\ out.ret[2] # None

\* C5: the extraction failures are checked in the order no laps, no completed
\* lap, no telemetry; each yields (None, its own message), and no figure is
\* created in any of the three cases.
C5_ExtractionFailures ==
    (Dashboarded /\ call.adapter.raises \notin {"get_session", "load", "pick_drivers"}) =>
        /\ LapsOfDriver = {} =>
              /\ out.ret[1] = None /\ out.ret[2] # None
              /\ "Error: No data found for driver " \in Pieces(out.ret[2][1])
              /\ "plt.figure" \notin Pieces(out.log)
        /\ (/\ LapsOfDriver # {}
            /\ CompletedLapsOfDriver = {}
            /\ call.adapter.raises # "pick_fastest") =>
              /\ out.ret[1] = None /\ out.ret[2] # None
              /\ "Error: No completed lap data found for " \in Pieces(out.ret[2][1])
              /\ "plt.figure" \notin Pieces(out.log)
        /\ (/\ CompletedLapsOfDriver # {}
            /\ call.adapter.telemetry = <<>>
            /\ call.adapter.raises \notin {"pick_fastest", "get_telemetry"}) =>
              /\ out.ret[1] = None /\ out.ret[2] # None
              /\ "Error: No telemetry data found for " \in Pieces(out.ret[2][1])
              /\ "plt.figure" \notin Pieces(out.log)

\* a driver whose laps are all incomplete, answered by the NoCompletedLap
\* message although the telemetry is empty too
C5_Witness ==
    /\ Dashboarded
    /\ call.adapter.raises = "none"
    /\ Cardinality(LapsOfDriver) = 2
    /\ CompletedLapsOfDriver = {}
    /\ call.adapter.telemetry = <<>>
    /\ "Error: No completed lap data found for " \in Pieces(out.ret[2][1])

\* C6 as stated: whenever the driver has at least one completed lap,
\* create_dashboard returns a non-null payload and a null error.
C6_CompletedLapGivesImage ==
    (Dashboarded /\ CompletedLapsOfDriver # {}) =>
        (out.ret[1] # None /\ out.ret[2] = None)

\* C6 amended: whenever the driver has at least one completed lap, the
\* fastest lap's telemetry is not empty and no call of the builder raises,
\* create_dashboard returns a non-null payload and a null error.
C6_CompletedLapAndTelemetryGiveImage ==
    (/\ Dashboarded
     /\ CompletedLapsOfDriver # {}
     /\ call.adapter.telemetry # <<>>
     /\ call.adapter.raises = "none") =>
        (out.ret[1] # None /\ out.ret[2] = None)

\* a driver with an incomplete lap followed by a completed one, and an image
C6_Witness ==
    /\ Dashboarded
    /\ call.adapter.raises = "none"
    /\ Cardinality(LapsOfDriver) = 2
    /\ Cardinality(CompletedLapsOfDriver) = 1
    /\ call.adapter.telemetry # <<>>
    /\ out.ret[1] # None
    /\ out.ret[2] = None

\* C9: once a create_dashboard or get_race_results call has returned, on any
\* exit path, no figure is open; no figure outlives the call that made it.
C9_NoOpenFigures ==
    (pc = "returned" /\ call.op \in {"create_dashboard", "get_race_results"}) =>
        figures = {}

\* a call that created its figure, met an exception while encoding and returned
C9_Witness ==
    /\ Dashboarded
    /\ call.adapter.raises = "b64encode"
    /\ "plt.figure" \in Pieces(out.log)
    /\ figures = {}

\* the required fields absent from the classification of a get_race_results call
AbsentCols == FinalColSet \ call.adapter.results.columns

\* C4 as stated: whenever some required field is absent from the adapter's
\* results, get_race_results returns (None, error) and the error is the
\* MissingColumns message naming exactly the absent fields, Position and
\* Time included.
C4_MissingColumnsNamed ==
    (Formatted /\ call.adapter.raises = "none" /\ AbsentCols # {}) =>
        /\ out.ret[1] = None
        /\ out.ret[2] # None
        /\ "Data is missing columns: " \in Pieces(out.ret[2][1])
        /\ Pieces(out.ret[2][1]) \cap FinalColSet = AbsentCols

\* C7: when get_race_results succeeds it returns one row per result record,
\* in the adapter's order; row i's Driver is record i's abbreviation, its
\* Team the team name, its FullName unchanged, and its Time is "N/A" exactly
\* when record i's time is null.
C7_RowsFollowRecords ==
    (Formatted /\ out.ret[1] # None) =>
        LET rows == out.ret[1][1]
            recs == call.adapter.results.rows
        IN  /\ Len(rows) = Len(recs)
            /\ \A i \in 1..Len(recs) :
                  /\ rows[i].Driver = recs[i].Abbreviation
                  /\ rows[i].Team = recs[i].TeamName
                  /\ rows[i].FullName = recs[i].FullName
                  /\ (rows[i].Time = <<"N", "/", "A">>) <=> (recs[i].Time = None)

\* two records of different drivers, the second without a time, formatted
C7_Witness ==
    /\ Formatted
    /\ out.ret[1] # None
    /\ Len(call.adapter.results.rows) = 2
    /\ call.adapter.results.rows[1].Abbreviation # call.adapter.results.rows[2].Abbreviation
    /\ call.adapter.results.rows[1].Time # None
    /\ call.adapter.results.rows[1].Time[1].days = 1
    /\ call.adapter.results.rows[2].Time = None
    /\ out.ret[1][1][1].Time = <<"0", "0", ":", "0", "0", ":", "0", "5">>
    /\ out.ret[1][1][2].Time = <<"N", "/", "A">>

\* the three selections of an index request pass the code's truth test
\* (a zero year and an empty string count as absent)
YearSet == TruthyInt(call.selected_year)
RaceSet == TruthyStr(call.selected_race)
DriverSet == TruthyStr(call.selected_driver)

\* C2: when year, event and driver are all supplied and no resolution stage
\* raised, index invokes exactly one builder exactly once: get_race_results
\* if and only if driver is "ALL", create_dashboard otherwise.
C2_OneBuilderByDriver ==
    (Resolved /\ YearSet /\ RaceSet /\ DriverSet /\ call.adapter.raises = "none") =>
        /\ Len(out.builders) = 1
        /\ (out.builders[1] = "get_race_results") <=> (call.selected_driver[1] = "ALL")
        /\ (out.builders[1] = "create_dashboard") <=> (call.selected_driver[1] # "ALL")

\* a request for "ALL" that reached get_race_results and got its rows
C2_Witness ==
    /\ Resolved /\ YearSet /\ RaceSet
    /\ call.selected_driver = Some("ALL")
    /\ out.builders = <<"get_race_results">>
    /\ out.results_data # None
    /\ out.plot_data = None

\* C3 as stated: exactly one of plot_data and results_data is populated in
\* every request in which driver is set, and neither when it is not.
C3_ExactlyOnePopulated ==
    Resolved =>
        /\ DriverSet => ((out.plot_data # None) # (out.results_data # None))
        /\ ~DriverSet => (out.plot_data = None /\ out.results_data = None)

\* C3 amended: plot_data and results_data are never both populated, neither
\* is populated when driver is not set, and one of them is populated exactly
\* when year, event and driver are all set, no resolution stage raised and
\* the builder invoked returned without an error (results_data for "ALL",
\* plot_data for any other driver).
C3_AtMostOnePopulated ==
    Resolved =>
        /\ ~(out.plot_data # None /\ out.results_data # None)
        /\ ~DriverSet => (out.plot_data = None /\ out.results_data = None)
        /\ (out.plot_data # None \/ out.results_data # None)
              <=> (/\ YearSet /\ RaceSet /\ DriverSet
                   /\ call.adapter.raises = "none"
                   /\ out.error = None)
        /\ out.results_data # None => call.selected_driver = Some("ALL")
        /\ out.plot_data # None => call.selected_driver # Some("ALL")

\* a request with driver set whose builder failed: neither is populated
C3_Witness ==
    /\ Resolved /\ YearSet /\ RaceSet
    /\ call.selected_driver = Some("VER")
    /\ out.builders = <<"create_dashboard">>
    /\ out.error # None
    /\ out.plot_data = None
    /\ out.results_data = None

\* C8: if the adapter raises at a resolution stage of index, the request ends
\* with a non-null error and with every list resolved before that stage: a
\* raise of the schedule fetch leaves both lists empty; a raise of the
\* session resolution or of the laps-only load leaves the fetched event list,
\* an empty driver list, and no builder invoked.
C8_PartialResultsWithError ==
    Resolved =>
        /\ (YearSet /\ call.adapter.raises = "get_event_schedule") =>
              /\ out.error # None
              /\ out.races = <<>> /\ out.drivers = <<>>
              /\ out.builders = <<>>
              /\ out.plot_data = None /\ out.results_data = None
        /\ (YearSet /\ RaceSet /\ call.adapter.raises \in {"get_session", "load"}) =>
              /\ out.error # None
              /\ out.races = call.adapter.events /\ out.drivers = <<>>
              /\ out.builders = <<>>
              /\ out.plot_data = None /\ out.results_data = None

\* the schedule was fetched, then the load for the driver list raised
C8_Witness ==
    /\ Resolved /\ YearSet /\ RaceSet /\ DriverSet
    /\ call.adapter.raises = "load"
    /\ call.adapter.laps # <<>>
    /\ out.log = <<"get_event_schedule", "get_session", "load">>
    /\ out.races = call.adapter.events
    /\ out.error # None

\* C10: resolution stops at the first absent parameter: without a year no
\* adapter call is made and every output keeps its initial value, whatever
\* event and driver are; with a year and no event only the schedule is
\* fetched; a session is resolved or loaded only with both year and event.
C10_ShortCircuit ==
    Resolved =>
        /\ ~YearSet =>
              /\ out.log = <<>> /\ out.builders = <<>>
              /\ out.races = <<>> /\ out.drivers = <<>>
              /\ out.plot_data = None /\ out.results_data = None /\ out.error = None
        /\ (YearSet /\ ~RaceSet) =>
              /\ out.log = <<"get_event_schedule">>
              /\ out.builders = <<>>
              /\ out.drivers = <<>>
        /\ (\E i \in 1..Len(out.log) : out.log[i] \in {"get_session", "load"}) =>
              (YearSet /\ RaceSet)

\* no year, but an event and a driver: nothing was called
C10_Witness ==
    /\ Resolved
    /\ call.selected_year = None
    /\ call.selected_race = Some("Bahrain Grand Prix")
    /\ call.selected_driver = Some("VER")
    /\ out.log = <<>>
    /\ out.error = None

====
